---------------------------- MODULE Spec2Model ----------------------------
(***************************************************************************)
(* A model of visualization.py: the module-load basemap/credential         *)
(* selection, the colour palette, and the three Streamlit render calls     *)
(* plot_network, summary and plot_flows.                                   *)
(*                                                                         *)
(* Python values are modelled with their type, so that str(), truthiness,  *)
(* "is not None" and int() are computed as Python computes them:           *)
(*   scalars  [t |-> type name, s |-> the value's str() form]              *)
(*   indices  [t |-> "int" | "NoneType" | "nan", n |-> the integer]        *)
(* A DataFrame is [isNone, cols, rows]: cols is the set of optional        *)
(* columns it has, rows the sequence of its rows; a row's field for a      *)
(* column the frame does not have holds the placeholder NoCol / NoColIdx   *)
(* and is never read (hasattr is FALSE).                                   *)
(***************************************************************************)
EXTENDS Integers, Sequences, FiniteSets

VARIABLES
    env_key,            \* os.environ["MAPBOX_API_KEY"] (PyNone when unset)
    secret_key,         \* st.secrets["MAPBOX_API_KEY"] (SecretRaises when the lookup fails)
    loaded,             \* the module body has run
    load_raised,        \* the module body propagated an exception
    _MAPBOX_TOKEN,      \* module global, line 13-18
    mapbox_api_key,     \* pdk.settings.mapbox_api_key, line 21
    found_at_load,      \* history: the credential sources as they were when the module loaded
    call,               \* the latest call and its arguments
    st_elems,           \* the Streamlit elements the latest call emitted, in order
    raised              \* the exception the latest call propagated, or "none"

vars == <<env_key, secret_key, loaded, load_raised, _MAPBOX_TOKEN, mapbox_api_key,
          found_at_load, call, st_elems, raised>>

---------------------------------------------------------------------------
(* Bounds of the model *)

MaxIdx == 12
MaxStores == 2
MaxCenters == 2
MaxLanes == 2

---------------------------------------------------------------------------
(* Python values *)

PyNone == [t |-> "NoneType", s |-> "None"]
PyStr(x) == [t |-> "str", s |-> x]
PyInt1 == [t |-> "int", s |-> "1"]
SecretRaises == [t |-> "raise", s |-> "KeyError"]

\* bool(v) of a scalar: None and the empty string are falsy
Truthy(v) == v.t # "NoneType" /\ ~(v.t = "str" /\ v.s = "")

\* str(v)
str(v) == v.s

IdxNone == [t |-> "NoneType", n |-> 0]
IdxNaN == [t |-> "nan", n |-> 0]
IdxInt(k) == [t |-> "int", n |-> k]
NoColIdx == [t |-> "nocol", n |-> 0]
NoCol == [t |-> "nocol", s |-> ""]

---------------------------------------------------------------------------
(* Colour palette, lines 24-36 *)

_COL == <<
    <<31, 119, 180>>,
    <<255, 127, 14>>,
    <<44, 160, 44>>,
    <<214, 39, 40>>,
    <<148, 103, 189>>,
    <<140, 86, 75>>,
    <<227, 119, 194>>,
    <<127, 127, 127>>,
    <<188, 189, 34>>,
    <<23, 190, 207>> >>

\* faulty variant: the index clamped to the palette instead of wrapped
c_NoModulo(i) == _COL[IF i < Len(_COL) THEN i + 1 ELSE Len(_COL)]

\* _COL[i % len(_COL)]; Python lists are 0-based, TLA+ sequences 1-based
_c(i) == _COL[(i % Len(_COL)) + 1]

---------------------------------------------------------------------------
(* Module load, lines 13-21 *)

EnvValues == {PyNone, PyStr(""), PyStr("pk.env")}
SecretValues == {SecretRaises, PyStr(""), PyStr("pk.secret")}

\* os.getenv("MAPBOX_API_KEY")
os_getenv == env_key

\* the try/except around st.secrets[...]: any Exception becomes None
secrets_lookup == IF secret_key.t = "raise" THEN PyNone ELSE secret_key

\* the value _MAPBOX_TOKEN holds after lines 13-18
token_at_load ==
    IF ~Truthy(os_getenv) THEN secrets_lookup ELSE os_getenv

ModuleLoad ==
    /\ ~loaded
    /\ loaded' = TRUE
    /\ load_raised' = FALSE
    /\ _MAPBOX_TOKEN' = token_at_load
    /\ mapbox_api_key' = IF Truthy(token_at_load) THEN token_at_load ELSE mapbox_api_key
    /\ found_at_load' = [env |-> env_key, secret |-> secret_key]
    /\ call' = [op |-> "idle"]
    /\ UNCHANGED <<env_key, secret_key, st_elems, raised>>

\* the process environment or the secret store changes after the module loaded
CredentialChange ==
    /\ loaded
    /\ call.op = "idle"
    /\ \E e \in EnvValues, s \in SecretValues :
          /\ <<e, s>> # <<env_key, secret_key>>
          /\ env_key' = e
          /\ secret_key' = s
    /\ UNCHANGED <<loaded, load_raised, _MAPBOX_TOKEN, mapbox_api_key, found_at_load,
                   call, st_elems, raised>>

---------------------------------------------------------------------------
(* _build_deck, lines 39-56 *)

\* faulty variant: the credential looked up again at every call
deck_PerCallLookup(layers) ==
    IF Truthy(IF ~Truthy(env_key) THEN secrets_lookup ELSE env_key)
    THEN [layers |-> layers, latitude |-> 39, longitude |-> -98,
          map_provider |-> "default", map_style |-> "mapbox://styles/mapbox/light-v10"]
    ELSE [layers |-> layers, latitude |-> 39, longitude |-> -98,
          map_provider |-> "carto", map_style |-> "light"]

_build_deck(layers) ==
    IF Truthy(_MAPBOX_TOKEN)
    THEN [layers |-> layers, latitude |-> 39, longitude |-> -98,
          map_provider |-> "default", map_style |-> "mapbox://styles/mapbox/light-v10"]
    ELSE [layers |-> layers, latitude |-> 39, longitude |-> -98,
          map_provider |-> "carto", map_style |-> "light"]

\* Streamlit elements
Subheader(text) == [kind |-> "subheader", text |-> text]
Info(text) == [kind |-> "info", text |-> text]
PydeckChart(deck) == [kind |-> "pydeck_chart", deck |-> deck]

\* the elements of one kind among those the latest call emitted
Elems(kind) == SelectSeq(st_elems, LAMBDA e : e.kind = kind)

\* the layers handed to the rendering widget by the latest call
ChartLayers == Elems("pydeck_chart")[1].deck.layers

\* the module is loaded and no call is in progress
Idle == loaded /\ call.op = "idle"

\* the latest call has returned or raised: control is back with the caller
Return ==
    /\ loaded
    /\ call.op # "idle"
    /\ call' = [op |-> "idle"]
    /\ st_elems' = <<>>
    /\ raised' = "none"
    /\ UNCHANGED <<env_key, secret_key, loaded, load_raised, _MAPBOX_TOKEN,
                   mapbox_api_key, found_at_load>>

EnvUnchanged == UNCHANGED <<env_key, secret_key, loaded, load_raised, _MAPBOX_TOKEN,
                            mapbox_api_key, found_at_load>>

---------------------------------------------------------------------------
(* plot_network, lines 59-106 *)

Points == {<<-98, 39>>, <<-80, 35>>}

\* pd.DataFrame(centers, columns=["Lon", "Lat"]) with the r, g, b columns of
\* lines 85 and 228 added: row i (0-based) is coloured _c(i)
centers_frame(centers) ==
    [i \in 1..Len(centers) |->
        [Lon |-> centers[i][1], Lat |-> centers[i][2],
         r |-> _c(i - 1)[1], g |-> _c(i - 1)[2], b |-> _c(i - 1)[3]]]

\* the ScatterplotLayer of the facility centres, lines 86-93 and 229-236
centers_layer(centers) ==
    [type |-> "ScatterplotLayer", data |-> centers_frame(centers),
     get_radius |-> 35000, opacity |-> "0.9"]

\* faulty variant: the target looked up by the row's position, not its Warehouse
edge_TargetByRow(r, k, cen_df) ==
    [f |-> <<r.Longitude, r.Latitude>>,
     t |-> <<cen_df[((k - 1) % Len(cen_df)) + 1].Lon, cen_df[((k - 1) % Len(cen_df)) + 1].Lat>>,
     col |-> _c(r.Warehouse) \o <<120>>]

\* one element of the list comprehension of lines 67-74, for row r at position k
network_edge(r, k, cen_df) ==
    [f |-> <<r.Longitude, r.Latitude>>,
     t |-> <<cen_df[r.Warehouse + 1].Lon, cen_df[r.Warehouse + 1].Lat>>,
     col |-> _c(r.Warehouse) \o <<120>>]

network_edges(stores, centers) ==
    [k \in 1..Len(stores) |-> network_edge(stores[k], k, centers_frame(centers))]

\* cen_df.iloc[int(r.Warehouse)] raises IndexError for a position past the end
network_index_error(stores, centers) ==
    \E k \in 1..Len(stores) : stores[k].Warehouse >= Len(centers)

network_layers(stores, centers) ==
    << [type |-> "LineLayer", data |-> network_edges(stores, centers), get_width |-> 2],
       [type |-> "ScatterplotLayer", data |-> stores, get_fill_color |-> <<0, 128, 255>>,
        get_radius |-> 12000, opacity |-> "0.6"],
       centers_layer(centers) >>

plot_network(stores, centers) ==
    /\ call' = [op |-> "plot_network", stores |-> stores, centers |-> centers]
    /\ IF network_index_error(stores, centers)
       THEN /\ st_elems' = <<Subheader("Network Map")>>
            /\ raised' = "IndexError"
       ELSE /\ st_elems' = <<Subheader("Network Map"),
                             PydeckChart(_build_deck(network_layers(stores, centers)))>>
            /\ raised' = "none"
    /\ EnvUnchanged

\* sequences of length lo..hi over S
SeqsOf(S, lo, hi) == UNION {[1..n -> S] : n \in lo..hi}

CenterLists == SeqsOf(Points, 1, MaxCenters)

StoreRows == [Longitude : {-98}, Latitude : {39, 35}, Warehouse : 0..(MaxCenters - 1)]

StoreTables == SeqsOf(StoreRows, 0, MaxStores)

---------------------------------------------------------------------------
(* summary, lines 109-143 *)

Metric(label, value, col) == [kind |-> "metric", label |-> label, value |-> value, col |-> col]

\* faulty variant: four columns only when both flags are set
ncols_BothFlags(consider_in, show_trans) == IF consider_in /\ show_trans THEN 4 ELSE 2

\* st.columns(4 if (consider_in or show_trans) else 2), line 126
summary_ncols(consider_in, show_trans) == IF consider_in \/ show_trans THEN 4 ELSE 2

\* the component metrics of lines 128-133 in the order the code places them; the
\* k-th of them goes to cols[k - 1], as i is incremented after each placement
summary_components(costs, consider_in, show_trans) ==
    <<[label |-> "Outbound", value |-> costs.out]>>
    \o (IF consider_in THEN <<[label |-> "Inbound", value |-> costs.in_]>> ELSE <<>>)
    \o (IF show_trans THEN <<[label |-> "Transfers", value |-> costs.trans]>> ELSE <<>>)
    \o <<[label |-> "Warehousing", value |-> costs.wh]>>

\* lines 135-137: one row per centre with its demand and demand * sqft_per_lb
summary_frame(centers, demand, sqft_per_lb) ==
    [i \in 1..Len(centers) |->
        [DemandLbs |-> demand[i], SqFt |-> demand[i] * sqft_per_lb,
         Lat |-> centers[i][2], Lon |-> centers[i][1]]]

\* cols[i] raises IndexError for i >= len(cols); the elements placed before stay.
\* Amounts are carried as numbers (the code formats them as "${:,.0f}").
summary(costs, centers, demand, sqft_per_lb, consider_in, show_trans) ==
    LET n == summary_ncols(consider_in, show_trans)
        comps == summary_components(costs, consider_in, show_trans)
        placed == IF Len(comps) <= n THEN Len(comps) ELSE n
        head == <<Subheader("Cost Summary"), Metric("Total annual cost", costs.total, -1),
                  [kind |-> "columns", n |-> n]>>
        metrics == [k \in 1..placed |-> Metric(comps[k].label, comps[k].value, k - 1)]
    IN  /\ call' = [op |-> "summary", consider_in |-> consider_in, show_trans |-> show_trans]
        /\ IF placed < Len(comps)
           THEN /\ st_elems' = head \o metrics
                /\ raised' = "IndexError"
           ELSE /\ st_elems' = head \o metrics
                       \o <<Subheader("Warehouse Demand & Size"),
                            [kind |-> "dataframe",
                             data |-> summary_frame(centers, demand, sqft_per_lb)]>>
                /\ raised' = "none"
        /\ EnvUnchanged

Costs == {[total |-> 1000, out |-> 400, in_ |-> 300, trans |-> 200, wh |-> 100]}

DemandFor(centers) == [i \in 1..Len(centers) |-> 1000 * i]

---------------------------------------------------------------------------
(* The palette as a call of its own *)

call_c(i) ==
    /\ call' = [op |-> "_c", i |-> i, result |-> _c(i), shifted |-> _c(i + Len(_COL))]
    /\ st_elems' = <<>>
    /\ raised' = "none"
    /\ EnvUnchanged

---------------------------------------------------------------------------
(* plot_flows, lines 147-239 *)

Types == {"outbound", "transfer", "inbound", "other"}

\* lanes_df is None or lanes_df.empty, line 164, and df.empty, line 176
\* faulty variant: the emptiness tests left out
frame_NeverEmpty(df) == FALSE

frame_empty(df) == df.isNone \/ Len(df.rows) = 0

\* brand_filter != "__ALL__": a value differs from the string unless it is that string
is_all(brand_filter) == brand_filter.t = "str" /\ brand_filter.s = "__ALL__"

\* lines 171-172: the comparison is between the str() forms of both sides
brand_step(df, brand_filter) ==
    IF ~is_all(brand_filter) /\ "brand" \in df.cols
    THEN [df EXCEPT !.rows = SelectSeq(df.rows, LAMBDA r : str(r.brand) = str(brand_filter))]
    ELSE df

\* line 175: df[df["lane_type"].isin(list(flow_types))]
type_step(df, flow_types) ==
    [df EXCEPT !.rows = SelectSeq(df.rows, LAMBDA r : r.lane_type \in flow_types)]

\* hasattr(r, name) and r.<name> is not None, for the two optional index columns
has_wh(r, cols) == "wh_idx" \in cols /\ r.wh_idx.t # "NoneType"
has_tier1(r, cols) == "tier1_idx" \in cols /\ r.tier1_idx.t # "NoneType"

\* int(x) raises ValueError for a float NaN, the value pandas gives a missing cell
int_raises(x) == x.t = "nan"

\* the per-type default of line 196
default_rgba(lane_type) ==
    CASE lane_type = "outbound" -> <<0, 128, 255, 160>>
      [] lane_type = "transfer" -> <<255, 127, 14, 180>>
      [] lane_type = "inbound" -> <<44, 160, 44, 140>>
      [] OTHER -> <<127, 127, 127, 140>>

\* faulty variant: the index colour given the alpha of the type's default colour
resolve_DefaultAlpha(r, cols) ==
    IF r.lane_type \in {"outbound", "transfer"} /\ has_wh(r, cols)
    THEN [raises |-> int_raises(r.wh_idx),
          rgba |-> _c(r.wh_idx.n) \o <<default_rgba(r.lane_type)[4]>>]
    ELSE IF r.lane_type = "inbound" /\ has_tier1(r, cols)
    THEN [raises |-> int_raises(r.tier1_idx), rgba |-> _c(r.tier1_idx.n) \o <<140>>]
    ELSE IF r.lane_type = "inbound" /\ has_wh(r, cols)
    THEN [raises |-> int_raises(r.wh_idx), rgba |-> _c(r.wh_idx.n) \o <<140>>]
    ELSE [raises |-> FALSE, rgba |-> default_rgba(r.lane_type)]

\* the body of the loop of lines 186-197 for one row: the colour appended, or
\* the ValueError int() raises (rgba is then not produced)
resolve_rgba(r, cols) ==
    IF r.lane_type \in {"outbound", "transfer"} /\ has_wh(r, cols)
    THEN [raises |-> int_raises(r.wh_idx), rgba |-> _c(r.wh_idx.n) \o <<160>>]
    ELSE IF r.lane_type = "inbound" /\ has_tier1(r, cols)
    THEN [raises |-> int_raises(r.tier1_idx), rgba |-> _c(r.tier1_idx.n) \o <<140>>]
    ELSE IF r.lane_type = "inbound" /\ has_wh(r, cols)
    THEN [raises |-> int_raises(r.wh_idx), rgba |-> _c(r.wh_idx.n) \o <<140>>]
    ELSE [raises |-> FALSE, rgba |-> default_rgba(r.lane_type)]

\* the loop raises as soon as one row's int() does
colours_raise(df) ==
    \E k \in 1..Len(df.rows) : resolve_rgba(df.rows[k], df.cols).raises

\* lines 181-198: each row with its position pairs and its colour; src keeps
\* the row as it came in
with_columns(df) ==
    [k \in 1..Len(df.rows) |->
        [src |-> df.rows[k],
         lane_type |-> df.rows[k].lane_type,
         origin_lon_lat |-> <<df.rows[k].origin_lon, df.rows[k].origin_lat>>,
         dest_lon_lat |-> <<df.rows[k].dest_lon, df.rows[k].dest_lat>>,
         rgba |-> resolve_rgba(df.rows[k], df.cols).rgba]]

_line_layer(df_sub, width) ==
    [type |-> "LineLayer", data |-> df_sub, get_width |-> width,
     pickable |-> TRUE, auto_highlight |-> TRUE]

of_type(rows, lane_type) == SelectSeq(rows, LAMBDA r : r.lane_type = lane_type)

\* faulty variant: a layer for every enabled type, empty or not
layers_NoEmptyCheck(rows, flow_types, centers) ==
    (IF "outbound" \in flow_types
     THEN <<_line_layer(of_type(rows, "outbound"), 2)>> ELSE <<>>)
    \o (IF "transfer" \in flow_types
        THEN <<_line_layer(of_type(rows, "transfer"), 3)>> ELSE <<>>)
    \o (IF "inbound" \in flow_types
        THEN <<_line_layer(of_type(rows, "inbound"), 1)>> ELSE <<>>)
    \o <<centers_layer(centers)>>

\* lines 201-236
flow_layers(rows, flow_types, centers) ==
    (IF Len(of_type(rows, "outbound")) > 0 /\ "outbound" \in flow_types
     THEN <<_line_layer(of_type(rows, "outbound"), 2)>> ELSE <<>>)
    \o (IF Len(of_type(rows, "transfer")) > 0 /\ "transfer" \in flow_types
        THEN <<_line_layer(of_type(rows, "transfer"), 3)>> ELSE <<>>)
    \o (IF Len(of_type(rows, "inbound")) > 0 /\ "inbound" \in flow_types
        THEN <<_line_layer(of_type(rows, "inbound"), 1)>> ELSE <<>>)
    \o <<centers_layer(centers)>>

plot_flows(lanes_df, centers, flow_types, brand_filter) ==
    LET df == type_step(brand_step(lanes_df, brand_filter), flow_types)
    IN  /\ call' = [op |-> "plot_flows", lanes_df |-> lanes_df, centers |-> centers,
                    flow_types |-> flow_types, brand_filter |-> brand_filter]
        /\ IF frame_empty(lanes_df)
           THEN /\ st_elems' = <<Subheader("Flow Map"), Info("No lanes to display.")>>
                /\ raised' = "none"
           ELSE IF frame_empty(df)
           THEN /\ st_elems' = <<Subheader("Flow Map"),
                                 Info("No flows match the current filters.")>>
                /\ raised' = "none"
           ELSE IF colours_raise(df)
           THEN /\ st_elems' = <<Subheader("Flow Map")>>
                /\ raised' = "ValueError"
           ELSE /\ st_elems' = <<Subheader("Flow Map"),
                                 PydeckChart(_build_deck(
                                     flow_layers(with_columns(df), flow_types, centers)))>>
                /\ raised' = "none"
        /\ EnvUnchanged

---------------------------------------------------------------------------
(* Inputs of plot_flows *)

LaneRow(lane_type, brand, wh_idx, tier1_idx) ==
    [lane_type |-> lane_type, brand |-> brand, wh_idx |-> wh_idx, tier1_idx |-> tier1_idx,
     origin_lon |-> -98, origin_lat |-> 39, dest_lon |-> -80, dest_lat |-> 35]

\* brand cells: two strings and an integer whose str() is one of the strings
BrandValues == {PyStr("A"), PyStr("1"), PyInt1}
BrandFilters == {PyStr("__ALL__"), PyStr("A"), PyStr("1")}

\* index cells: None, a missing float cell (NaN), or an integer
WhIdxValues == {IdxNone, IdxNaN, IdxInt(MaxIdx)}
Tier1IdxValues == {IdxNone, IdxNaN, IdxInt(MaxIdx - 9)}

\* the rows a frame with the optional columns cols can hold
RowsFor(cols) ==
    {LaneRow(ty, b, w, t) :
        ty \in Types,
        b \in (IF "brand" \in cols THEN BrandValues ELSE {NoCol}),
        w \in (IF "wh_idx" \in cols THEN WhIdxValues ELSE {NoColIdx}),
        t \in (IF "tier1_idx" \in cols THEN Tier1IdxValues ELSE {NoColIdx})}

NoneFrame == [isNone |-> TRUE, cols |-> {}, rows |-> <<>>]

\* the frame with the optional columns cols and the rows rows
Frame(cols, rows) == [isNone |-> FALSE, cols |-> cols, rows |-> rows]

FlowCenters == <<<<-98, 39>>, <<-80, 35>>>>

\* flow_types as passed by the callers of the colour runs: the default, every type, and two of them
ColourFlowTypes == {{"outbound", "transfer", "inbound"}, Types, {"inbound", "other"}}

---------------------------------------------------------------------------
(* Specifications *)

Init ==
    /\ env_key \in EnvValues
    /\ secret_key \in SecretValues
    /\ loaded = FALSE
    /\ load_raised = FALSE
    /\ _MAPBOX_TOKEN = PyNone
    /\ mapbox_api_key = PyNone
    /\ found_at_load = [env |-> PyNone, secret |-> SecretRaises]
    /\ call = [op |-> "none"]
    /\ st_elems = <<>>
    /\ raised = "none"

\* the process right after the module loaded, with the credential in the environment or nowhere
LoadedInit ==
    /\ env_key \in {PyNone, PyStr("pk.env")}
    /\ secret_key = SecretRaises
    /\ loaded = TRUE
    /\ load_raised = FALSE
    /\ _MAPBOX_TOKEN = token_at_load
    /\ mapbox_api_key = token_at_load
    /\ found_at_load = [env |-> env_key, secret |-> secret_key]
    /\ call = [op |-> "idle"]
    /\ st_elems = <<>>
    /\ raised = "none"

NetworkCall ==
    /\ Idle
    /\ \E stores \in StoreTables, centers \in CenterLists : plot_network(stores, centers)

SummaryCall ==
    /\ Idle
    /\ \E costs \in Costs, centers \in CenterLists, consider_in \in BOOLEAN, show_trans \in BOOLEAN :
        summary(costs, centers, DemandFor(centers), 2, consider_in, show_trans)

PaletteCall == Idle /\ \E i \in 0..MaxIdx : call_c(i)

\* plot_flows on frames without optional columns, and on None
FlowsCall ==
    /\ Idle
    /\ \E flow_types \in SUBSET Types :
        \/ plot_flows(NoneFrame, FlowCenters, flow_types, PyStr("__ALL__"))
        \/ \E n \in 0..1 : \E rows \in [1..n -> RowsFor({})] :
              plot_flows(Frame({}, rows), FlowCenters, flow_types, PyStr("__ALL__"))

\* plot_flows on frames with or without the brand column, and on None
BrandFlowsCall ==
    /\ Idle
    /\ \E flow_types \in SUBSET Types, brand_filter \in BrandFilters :
        \/ plot_flows(NoneFrame, FlowCenters, flow_types, brand_filter)
        \/ \E cols \in {{}, {"brand"}}, n \in 0..MaxLanes : \E rows \in [1..n -> RowsFor(cols)] :
              plot_flows(Frame(cols, rows), FlowCenters, flow_types, brand_filter)

\* plot_flows on frames with or without each of the index columns
ColourFlowsCall ==
    /\ Idle
    /\ \E flow_types \in ColourFlowTypes, cols \in SUBSET {"wh_idx", "tier1_idx"}, n \in 0..MaxLanes :
        \E rows \in [1..n -> RowsFor(cols)] :
            plot_flows(Frame(cols, rows), FlowCenters, flow_types, PyStr("__ALL__"))

Next ==
    \/ ModuleLoad
    \/ CredentialChange
    \/ NetworkCall
    \/ SummaryCall
    \/ PaletteCall
    \/ FlowsCall
    \/ Return

Spec == Init /\ [][Next]_vars

LayersNext == BrandFlowsCall \/ Return

SpecLayers == LoadedInit /\ [][LayersNext]_vars

ColoursNext == ColourFlowsCall \/ Return

SpecColours == LoadedInit /\ [][ColoursNext]_vars

---------------------------------------------------------------------------
(* Properties *)

\* the latest call is a plot_flows that handed a deck to the rendering widget
FlowChart == call.op = "plot_flows" /\ Len(Elems("pydeck_chart")) = 1

\* the rows of the plot_flows input left after the brand and the lane_type filter
Survivors ==
    type_step(brand_step(call.lanes_df, call.brand_filter), call.flow_types).rows

\* the rows of every edge layer of the chart, as one sequence per layer
EdgeLayers == SubSeq(ChartLayers, 1, Len(ChartLayers) - 1)

EdgeWidth(lane_type) ==
    CASE lane_type = "outbound" -> 2
      [] lane_type = "transfer" -> 3
      [] lane_type = "inbound" -> 1

\* the lane types that are enabled and have a surviving row, in layer order
ExpectedEdgeTypes ==
    SelectSeq(<<"outbound", "transfer", "inbound">>,
              LAMBDA ty : /\ ty \in call.flow_types
                          /\ \E k \in 1..Len(Survivors) : Survivors[k].lane_type = ty)

\* C1: the layers plot_flows hands to the widget are one non-empty edge layer per
\* enabled lane type with a surviving row, in the order outbound (width 2),
\* transfer (3), inbound (1), then exactly one centres point layer, last; with
\* flow_types = {outbound} they are one width-2 edge layer and the centres layer.
C1_LayerList ==
    FlowChart =>
        LET L == ChartLayers
            E == ExpectedEdgeTypes
        IN  /\ Len(L) = Len(E) + 1
            /\ L[Len(L)] = centers_layer(call.centers)
            /\ \A k \in 1..Len(E) :
                  /\ L[k].type = "LineLayer"
                  /\ L[k].get_width = EdgeWidth(E[k])
                  /\ Len(L[k].data) > 0
                  /\ Len(L[k].data) = Len(of_type(Survivors, E[k]))
                  /\ \A j \in 1..Len(L[k].data) : L[k].data[j].lane_type = E[k]
            /\ (call.flow_types = {"outbound"} =>
                  /\ Len(L) = 2
                  /\ L[1].type = "LineLayer"
                  /\ L[1].get_width = 2)

\* a chart with a transfer and an inbound layer and no outbound layer
C1_Witness ==
    /\ FlowChart
    /\ Len(ChartLayers) = 3
    /\ ChartLayers[1].get_width = 3
    /\ ChartLayers[2].get_width = 1
    /\ "outbound" \in call.flow_types

\* C2: a plot_flows call whose lanes table is None or empty, or is emptied by the
\* brand and lane_type filters, emits exactly one info message (the "no lanes"
\* one, respectively the "no flows match" one), hands no deck to the widget and
\* does not raise, for every flow_types and brand_filter.
C2_EmptyNoOp ==
    call.op = "plot_flows" =>
        LET input_empty == call.lanes_df.isNone \/ Len(call.lanes_df.rows) = 0
        IN  /\ input_empty =>
                  /\ Elems("info") = <<Info("No lanes to display.")>>
                  /\ Len(Elems("pydeck_chart")) = 0
                  /\ raised = "none"
            /\ (~input_empty /\ Len(Survivors) = 0) =>
                  /\ Elems("info") = <<Info("No flows match the current filters.")>>
                  /\ Len(Elems("pydeck_chart")) = 0
                  /\ raised = "none"

\* a table with a row of an enabled type that the brand filter empties
C2_Witness ==
    /\ call.op = "plot_flows"
    /\ ~call.lanes_df.isNone
    /\ \E k \in 1..Len(call.lanes_df.rows) : call.lanes_df.rows[k].lane_type \in call.flow_types
    /\ ~is_all(call.brand_filter)
    /\ Len(Survivors) = 0
    /\ Len(Elems("info")) = 1

IsInt(r, name) ==
    /\ name \in call.lanes_df.cols
    /\ IF name = "wh_idx" THEN r.wh_idx.t = "int" ELSE r.tier1_idx.t = "int"

\* the palette entry at position n mod 10, with alpha appended
PaletteRgba(n, alpha) == _COL[(n % 10) + 1] \o <<alpha>>

\* C4: every plot_flows call with a surviving row resolves a 4-channel colour for
\* each surviving row and never fails, whatever wh_idx and tier1_idx hold and
\* whatever the lane_type; a row no index rule applies to gets its type's default.
C4_ColourResolutionTotal ==
    (call.op = "plot_flows" /\ Len(Survivors) > 0) =>
        /\ raised = "none"
        /\ FlowChart
        /\ \A k \in 1..Len(EdgeLayers) : \A j \in 1..Len(EdgeLayers[k].data) :
              LET e == EdgeLayers[k].data[j]
              IN  /\ Len(e.rgba) = 4
                  /\ (~IsInt(e.src, "wh_idx") /\ ~IsInt(e.src, "tier1_idx")) =>
                        e.rgba = default_rgba(e.lane_type)

\* C5: an outbound or transfer row whose wh_idx is present is coloured
\* palette(wh_idx) with alpha 160 whether or not tier1_idx is present, and a call
\* all of whose surviving rows are such rows draws them.
C5_OutboundTransferColour ==
    call.op = "plot_flows" =>
        /\ ( /\ Len(Survivors) > 0
             /\ \A k \in 1..Len(Survivors) :
                   /\ Survivors[k].lane_type \in {"outbound", "transfer"}
                   /\ IsInt(Survivors[k], "wh_idx") ) => FlowChart
        /\ FlowChart =>
              \A k \in 1..Len(EdgeLayers) : \A j \in 1..Len(EdgeLayers[k].data) :
                  LET e == EdgeLayers[k].data[j]
                  IN  (e.src.lane_type \in {"outbound", "transfer"} /\ IsInt(e.src, "wh_idx")) =>
                          e.rgba = PaletteRgba(e.src.wh_idx.n, 160)

\* a drawn transfer row with an integer wh_idx past the palette's end and a
\* missing (NaN) tier1_idx
C5_Witness ==
    /\ FlowChart
    /\ \E k \in 1..Len(EdgeLayers) : \E j \in 1..Len(EdgeLayers[k].data) :
          LET e == EdgeLayers[k].data[j]
          IN  /\ e.src.lane_type = "transfer"
              /\ IsInt(e.src, "wh_idx")
              /\ e.src.wh_idx.n >= 10
              /\ "tier1_idx" \in call.lanes_df.cols
              /\ e.src.tier1_idx.t = "nan"

\* C6: an inbound row with tier1_idx present is coloured palette(tier1_idx) with
\* alpha 140, also when wh_idx is present; an inbound row with only wh_idx present
\* is coloured palette(wh_idx) with alpha 140. Stated of the calls all of whose
\* surviving rows are inbound rows with one of the two indices present.
C6_InboundColour ==
    ( /\ call.op = "plot_flows"
      /\ Len(Survivors) > 0
      /\ \A k \in 1..Len(Survivors) :
            /\ Survivors[k].lane_type = "inbound"
            /\ (IsInt(Survivors[k], "tier1_idx") \/ IsInt(Survivors[k], "wh_idx")) ) =>
        /\ FlowChart
        /\ \A k \in 1..Len(EdgeLayers) : \A j \in 1..Len(EdgeLayers[k].data) :
              LET e == EdgeLayers[k].data[j]
              IN  e.rgba = IF IsInt(e.src, "tier1_idx")
                           THEN PaletteRgba(e.src.tier1_idx.n, 140)
                           ELSE PaletteRgba(e.src.wh_idx.n, 140)

\* C7: plot_network on N stores and F centres, every Warehouse index valid, draws
\* N edges (edge k from store k to the centre at store k's Warehouse index,
\* coloured palette(Warehouse) with alpha 120) and N + F points (the N stores and
\* the F centres, centre i coloured palette(i)), for every order of the stores.
C7_NetworkPrimitives ==
    ( /\ call.op = "plot_network"
      /\ \A k \in 1..Len(call.stores) : call.stores[k].Warehouse < Len(call.centers) ) =>
        /\ raised = "none"
        /\ Len(Elems("pydeck_chart")) = 1
        /\ LET L == ChartLayers
               N == Len(call.stores)
               F == Len(call.centers)
           IN  /\ Len(L) = 3
               /\ L[1].type = "LineLayer"
               /\ Len(L[1].data) = N
               /\ \A k \in 1..N :
                     /\ L[1].data[k].f = <<call.stores[k].Longitude, call.stores[k].Latitude>>
                     /\ L[1].data[k].t = call.centers[call.stores[k].Warehouse + 1]
                     /\ L[1].data[k].col = PaletteRgba(call.stores[k].Warehouse, 120)
               /\ L[2].type = "ScatterplotLayer"
               /\ L[3].type = "ScatterplotLayer"
               /\ L[2].data = call.stores
               /\ Len(L[2].data) + Len(L[3].data) = N + F
               /\ \A i \in 1..F :
                     /\ <<L[3].data[i].Lon, L[3].data[i].Lat>> = call.centers[i]
                     /\ <<L[3].data[i].r, L[3].data[i].g, L[3].data[i].b>> = _COL[((i - 1) % 10) + 1]

\* two stores assigned to two centres at different places, in the order opposite
\* to the centres'
C7_Witness ==
    /\ call.op = "plot_network"
    /\ Len(Elems("pydeck_chart")) = 1
    /\ Len(call.stores) = 2
    /\ Len(call.centers) = 2
    /\ call.centers[1] # call.centers[2]
    /\ call.stores[1].Warehouse = 1
    /\ call.stores[2].Warehouse = 0

\* C8: for every consider_in and show_trans, summary shows the grand total and
\* then Outbound, Inbound iff consider_in, Transfers iff show_trans, Warehousing,
\* in that order, each in a column of its own whose index is below the number of
\* columns allocated; no combination indexes past the columns.
C8_SummaryColumns ==
    call.op = "summary" =>
        LET M == Elems("metric")
            n == Elems("columns")[1].n
            labels == <<"Outbound">>
                      \o (IF call.consider_in THEN <<"Inbound">> ELSE <<>>)
                      \o (IF call.show_trans THEN <<"Transfers">> ELSE <<>>)
                      \o <<"Warehousing">>
        IN  /\ raised = "none"
            /\ Len(M) = Len(labels) + 1
            /\ M[1].label = "Total annual cost"
            /\ \A k \in 1..Len(labels) :
                  /\ M[k + 1].label = labels[k]
                  /\ M[k + 1].col = k - 1
                  /\ M[k + 1].col < n

\* both flags set: the fourth column is used
C8_Witness ==
    /\ call.op = "summary"
    /\ call.consider_in
    /\ call.show_trans
    /\ Len(Elems("metric")) = 5
    /\ Elems("metric")[5].col = 3

\* a non-empty credential existed, in the environment or the secret store, when
\* the module loaded
CredentialAtLoad ==
    \/ Truthy(found_at_load.env)
    \/ (found_at_load.secret.t = "str" /\ found_at_load.secret.s # "")

\* C9: loading never raises; once loaded, the token is non-empty iff a non-empty
\* credential existed at load (the environment's first), and every deck built by
\* any later render call uses the Mapbox style iff it did and the Carto basemap
\* otherwise, whatever happened to the credential sources since.
C9_BasemapDecidedAtLoad ==
    loaded =>
        /\ ~load_raised
        /\ Truthy(_MAPBOX_TOKEN) <=> CredentialAtLoad
        /\ Truthy(found_at_load.env) => _MAPBOX_TOKEN = found_at_load.env
        /\ \A k \in 1..Len(Elems("pydeck_chart")) :
              LET d == Elems("pydeck_chart")[k].deck
              IN  IF CredentialAtLoad
                  THEN d.map_style = "mapbox://styles/mapbox/light-v10" /\ d.map_provider = "default"
                  ELSE d.map_style = "light" /\ d.map_provider = "carto"

\* a deck built on Carto after a credential appeared in the environment
C9_Witness ==
    /\ loaded
    /\ ~CredentialAtLoad
    /\ Truthy(env_key)
    /\ call.op \in {"plot_network", "plot_flows"}
    /\ Len(Elems("pydeck_chart")) = 1
    /\ Elems("pydeck_chart")[1].deck.map_provider = "carto"

\* C10: _c(i) = _c(i + 10) for every non-negative i, and _c(i) is the palette
\* entry at position i mod 10.
C10_PaletteCyclic ==
    call.op = "_c" =>
        /\ call.result = call.shifted
        /\ call.result = _COL[(call.i % 10) + 1]
        /\ \E p \in 1..10 : call.result = _COL[p]

\* an index past the palette's end
C10_Witness ==
    /\ call.op = "_c"
    /\ call.i >= 10
    /\ call.result = _COL[call.i - 9]

============================================================================
